---------------------------- MODULE Spec2Model ----------------------------
(***************************************************************************)
(* ClipMaster backend (src/main.py, src/schemas.py): the job store         *)
(* (save_job / get_job / update_job over a Mongo collection or the         *)
(* in-memory mapping _mem_jobs) and the two handlers POST /process and     *)
(* GET /status/{job_id}.                                                   *)
(*                                                                         *)
(* Two specifications share the state:                                     *)
(*   SpecSeq  every handler runs to completion as one step.  The handlers  *)
(*            are `async def` with no await, so inside one server process  *)
(*            (either backing) no two requests interleave.                 *)
(*   Spec     several server processes share the Mongo collection; their   *)
(*            handlers interleave at the store calls (insert_one,          *)
(*            find_one, update_one) and at the reads of the clock.         *)
(*                                                                         *)
(* Time is counted in ticks of 1/TicksPerSec seconds.  time.time() is      *)
(* taken to be non-decreasing.  Floats are exact on the sampled values.    *)
(*                                                                         *)
(* Python None/Optional values are modelled as sequences of length <= 1:   *)
(* None is <<>> and a present value v is <<v>>.  A dict is a function      *)
(* whose DOMAIN is its key set.  Strings that the code converts            *)
(* (str.lower, the pydantic str -> float coercion) are sequences of        *)
(* one-character strings; all other strings are atomic.                    *)
(***************************************************************************)
EXTENDS Integers, Sequences, FiniteSets, TLC

VARIABLES
    db,       \* TRUE: `db is not None` (Mongo backing); FALSE: _mem_jobs
    jobs,     \* the store: job id -> document (collection 'job' or _mem_jobs)
    now,      \* time.time(), in ticks
    calls,    \* worker -> the handler invocation it is inside (Spec only)
    resp,     \* the response of the handler that returned last
    polled,   \* job id -> the bodies of its last two 200 responses of
              \* GET /status, the older one first
    received  \* job id -> Some(the time at which the POST /process that
              \* created it entered the handler)

vars == <<db, jobs, now, calls, resp, polled, received>>

---------------------------------------------------------------------------
(* Bounds of the model *)

\* ticks per second of the model clock
TicksPerSec == 2
\* seconds past the processing deadline that the clock may run
Slack == 1

(* Program constants *)

PROCESS_SECONDS == 10

Deadline == PROCESS_SECONDS * TicksPerSec
MaxTime == (PROCESS_SECONDS + Slack) * TicksPerSec
\* amounts by which the clock advances between two steps: one tick short
\* of the processing window, and the whole window
ClockSteps == {Deadline - 1, Deadline}

\* ids the store can hand out (uuid4().hex / str(ObjectId)), and a path
\* parameter that is not the text of an ObjectId
JobIds == {"j1", "j2"}
MalformedId == "not-an-id"
PathIds == JobIds \cup {MalformedId}
Workers == {"w1", "w2"}

---------------------------------------------------------------------------
(* Python values *)

None == <<>>
Some(v) == <<v>>

Min(a, b) == IF a <= b THEN a ELSE b
Max(a, b) == IF a >= b THEN a ELSE b

\* dict.get(key, default)
Get(d, k, default) == IF k \in DOMAIN d THEN d[k] ELSE default

\* dict.update(updates) / {**doc, ...} / Mongo $set: keys of u override d
Merge(d, u) == [k \in DOMAIN d \cup DOMAIN u |-> IF k \in DOMAIN u THEN u[k] ELSE d[k]]

UpperCase == <<"A","B","C","D","E","F","G","H","I","J","K","L","M",
               "N","O","P","Q","R","S","T","U","V","W","X","Y","Z">>
LowerCase == <<"a","b","c","d","e","f","g","h","i","j","k","l","m",
               "n","o","p","q","r","s","t","u","v","w","x","y","z">>
\* str.lower(), character by character
LowerChar(c) ==
    IF \E i \in 1..26 : UpperCase[i] = c
    THEN LowerCase[CHOOSE i \in 1..26 : UpperCase[i] = c]
    ELSE c
Lower(s) == [i \in 1..Len(s) |-> LowerChar(s[i])]

Digits == <<"0","1","2","3","4","5","6","7","8","9">>
IsDigit(c) == \E i \in 1..10 : Digits[i] = c
DigitVal(c) == (CHOOSE i \in 1..10 : Digits[i] = c) - 1
RECURSIVE DecimalValue(_)
DecimalValue(s) ==
    IF Len(s) = 0 THEN 0
    ELSE 10 * DecimalValue(SubSeq(s, 1, Len(s) - 1)) + DigitVal(s[Len(s)])
\* the strings of decimal digits are the numeric strings of the model
IsNumeric(s) == Len(s) > 0 /\ \A i \in 1..Len(s) : IsDigit(s[i])

AUTO == <<"a","u","t","o">>
TruthyStrings == { <<"t","r","u","e">>, <<"1">>, <<"y","e","s">>, <<"o","n">> }

---------------------------------------------------------------------------
(* Requests *)

\* The text of the `sources` form field, by what json.loads makes of it:
\* "empty" is the empty string, "malformed" is not JSON, "scalar" is a JSON
\* value that is not a list, "list" is a JSON list whose items are
\* <<"str", text>> or <<"num", text>>.
JsonText(kind, items) == [json |-> kind, items |-> items]

SourceUrls == {None, Some(""), Some("b")}
SourcesTexts ==
    {None,
     Some(JsonText("malformed", <<>>)),
     Some(JsonText("scalar", <<>>)),
     Some(JsonText("list", << <<"num", "1">> >>)),
     Some(JsonText("list", << <<"str", "a">>, <<"str", "b">> >>)),
     Some(JsonText("list", << <<"num", "1">>, <<"str", "a">> >>))}
ClipLengths == {Some(AUTO), Some(<<"4","5">>), Some(<<"a","b","c">>)}
AutoHighlights == {Some(<<"O","n">>), Some(<<"0">>), Some(<<"Y","E","S">>),
                   Some(<<"1">>)}

Request(f, u, s, cl, ar, ah) ==
    [file |-> f, source_url |-> u, sources |-> s,
     clip_length |-> cl, aspect_ratio |-> ar, auto_highlights |-> ah]

\* the requests of the model: without a file, every combination of the link
\* fields, the options left out; with a file, the link fields left out or
\* given, and each option varied
Requests ==
    {Request(None, u, s, None, None, None) :
        u \in SourceUrls, s \in SourcesTexts}
    \cup
    {Request(Some("video.mp4"), None, Some(JsonText("empty", <<>>)), None, None, None),
     Request(Some("video.mp4"), Some("b"),
             Some(JsonText("list", << <<"str", "a">> >>)), None, None, None)}
    \cup
    {Request(Some("video.mp4"), None, None, cl,
             IF cl = Some(AUTO) THEN None ELSE Some("9:16"), None) :
        cl \in ClipLengths}
    \cup
    {Request(Some("video.mp4"), None, None, None, None, ah) : ah \in AutoHighlights}

\* the requests and the ids of the interleaved specification: it follows the
\* steps of several handlers on one job
ConcurrentRequests ==
    {Request(None, None, None, None, None, None),
     Request(None, Some("b"), None, None, None, None)}
    \cup
    {Request(Some("video.mp4"), None, None, cl, None, None) : cl \in ClipLengths}
ConcurrentJobIds == {"j1"}

\* a form field with a default: Form("auto"), Form("true")
FormValue(o, default) == IF o = None THEN default ELSE o[1]

---------------------------------------------------------------------------
(* Job store *)

\* _mem_jobs[jid] = {**doc, "_id": jid} / db['job'].insert_one(doc)
save_job(store, jid, doc) ==
    [k \in DOMAIN store \cup {jid} |->
        IF k = jid THEN Merge(doc, [_id |-> jid]) ELSE store[k]]

\* _mem_jobs.get(job_id) / db['job'].find_one({"_id": ...})
get_job(store, job_id) ==
    IF job_id \in DOMAIN store THEN Some(store[job_id]) ELSE None

\* a store whose update reaches every record
update_job_all(store, job_id, updates) ==
    IF job_id \in DOMAIN store
    THEN [k \in DOMAIN store |-> Merge(store[k], updates)]
    ELSE store

\* _mem_jobs[job_id].update(updates) / update_one(..., {"$set": updates})
update_job(store, job_id, updates) ==
    IF job_id \in DOMAIN store
    THEN [store EXCEPT ![job_id] = Merge(@, updates)]
    ELSE store

\* bson ObjectId(job_id) raises InvalidId unless job_id is the text of an
\* ObjectId; only the Mongo path builds one
ObjectIdRaises(isDb, job_id) == isDb /\ job_id = MalformedId

---------------------------------------------------------------------------
(* POST /process *)

IsStrItem(x) == x[1] = "str"
StrItems(items) ==
    LET sel == SelectSeq(items, IsStrItem)
    IN [i \in 1..Len(sel) |-> sel[i][2]]
InSeq(x, s) == \E i \in 1..Len(s) : s[i] = x

\* a link list that appends source_url without looking for it
link_list_always_append(source_url, sources) ==
    LET parsed ==
            IF sources # None /\ sources[1].json = "list"
            THEN StrItems(sources[1].items)
            ELSE <<>>
    IN IF source_url # None /\ source_url[1] # ""
       THEN Append(parsed, source_url[1])
       ELSE parsed

\* a link list that keeps the non-string items of the parsed list
link_list_unfiltered(source_url, sources) ==
    LET parsed ==
            IF sources # None /\ sources[1].json = "list"
            THEN [i \in 1..Len(sources[1].items) |-> sources[1].items[i][2]]
            ELSE <<>>
    IN IF source_url # None /\ source_url[1] # "" /\ ~InSeq(source_url[1], parsed)
       THEN Append(parsed, source_url[1])
       ELSE parsed

\* lines 93-102
link_list(source_url, sources) ==
    LET parsed ==
            IF sources # None /\ sources[1].json = "list"
            THEN StrItems(sources[1].items)
            ELSE <<>>
    IN IF source_url # None /\ source_url[1] # "" /\ ~InSeq(source_url[1], parsed)
       THEN Append(parsed, source_url[1])
       ELSE parsed

\* line 104
missing_input(req) ==
    req.file = None /\ Len(link_list(req.source_url, req.sources)) = 0

\* a comparison that forgets .lower()
auto_h_case_sensitive(auto_highlights) == auto_highlights \in TruthyStrings

\* line 108
auto_h(auto_highlights) == Lower(auto_highlights) \in TruthyStrings

\* a record that keeps the link list whatever the source type
job_doc_keeps_links(req) ==
    [status |-> "queued",
     progress |-> 10,
     message |-> "Queued for processing",
     source_type |-> IF req.file # None THEN "file" ELSE "links",
     original_filename |-> req.file,
     sources |-> Some(link_list(req.source_url, req.sources)),
     clip_length |-> FormValue(req.clip_length, AUTO),
     aspect_ratio |-> FormValue(req.aspect_ratio, "auto"),
     auto_highlights |-> auto_h(FormValue(req.auto_highlights, <<"t","r","u","e">>)),
     clips |-> None,
     error |-> None]

\* lines 107-121: Job(...).model_dump()
job_doc(req) ==
    LET source_type == IF req.file # None THEN "file" ELSE "links"
    IN [status |-> "queued",
        progress |-> 10,
        message |-> "Queued for processing",
        source_type |-> source_type,
        original_filename |-> req.file,
        sources |-> IF source_type = "links"
                    THEN Some(link_list(req.source_url, req.sources))
                    ELSE None,
        clip_length |-> FormValue(req.clip_length, AUTO),
        aspect_ratio |-> FormValue(req.aspect_ratio, "auto"),
        auto_highlights |-> auto_h(FormValue(req.auto_highlights, <<"t","r","u","e">>)),
        clips |-> None,
        error |-> None]

\* a stamp written under another key
created_stamp_typo(t) == [created |-> t]

\* line 126
created_stamp(t) == [created_ts |-> t]

---------------------------------------------------------------------------
(* GET /status/{job_id} *)

\* a record without created_ts counted from the epoch
elapsed_of_epoch(doc, t) == Max(0, t - Get(doc, "created_ts", 0))

\* lines 137-138, in ticks
elapsed_of(doc, t) == Max(0, t - Get(doc, "created_ts", t))

\* progress computed from the time that remains
pct_of_remaining(elapsed) ==
    Min(95, ((Deadline - elapsed) * 90) \div Deadline) + 10
\* progress computed as a share of 100 instead of 90
pct_of_percent(elapsed) == Min(95, (elapsed * 100) \div Deadline) + 10

\* line 141: int(min(95, (elapsed / PROCESS_SECONDS) * 90) + 10); 95 and 10
\* are whole, so the truncation applies to the quotient alone
pct_of(elapsed) == Min(95, (elapsed * 90) \div Deadline) + 10

\* lines 142-146
processing_updates(pct) ==
    [status |-> "processing",
     progress |-> pct,
     message |-> "Analyzing scenes, audio and generating captions"]

\* lines 147-151
processing_body(pct) ==
    [status |-> "processing",
     progress |-> pct,
     message |-> "Working on your highlights"]

\* line 154: not doc.get('clips')
no_clips(doc) ==
    LET c == Get(doc, "clips", None) IN c = None \/ c[1] = <<>>

\* schemas.Clip: duration is Optional[float]; a str is coerced when it is
\* numeric and rejected (ValidationError) otherwise
duration_ok(d) == d = None \/ d[1].num \/ IsNumeric(d[1].text)
duration_value(d) ==
    IF d = None THEN None
    ELSE IF d[1].num THEN Some(d[1].val) ELSE Some(DecimalValue(d[1].text))

\* a first clip that ignores clip_length
first_duration_default(doc) == Some([num |-> TRUE, val |-> 30, text |-> <<>>])

\* line 159: the value handed to Clip(duration=...): a number or a str
first_duration(doc) ==
    LET cl == Get(doc, "clip_length", None)
    IN IF cl = AUTO THEN Some([num |-> TRUE, val |-> 30, text |-> <<>>])
       ELSE IF cl = None THEN None
       ELSE Some([num |-> FALSE, val |-> 0, text |-> cl])

Clip(caption, duration, aspect_ratio, thumbnail_url, download_url) ==
    [caption |-> caption, duration |-> duration_value(duration),
     aspect_ratio |-> aspect_ratio,
     thumbnail_url |-> thumbnail_url, download_url |-> download_url]

\* lines 155-171; raises when Clip(...) rejects the first duration
example_clips_raises(doc) == ~duration_ok(first_duration(doc))
example_clips(doc) ==
    LET ar == Get(doc, "aspect_ratio", "auto")
    IN << Clip("Top moment with highest energy", first_duration(doc), ar,
               "thumb-1", "download-1"),
          Clip("Funny reaction with clean transcript",
               Some([num |-> TRUE, val |-> 20, text |-> <<>>]), ar,
               "thumb-2", "download-2") >>

\* a completion that also restarts the job's timeline
completed_updates_restamp(clips) ==
    [status |-> "completed",
     progress |-> 100,
     message |-> "All done! Your clips are ready.",
     clips |-> Some(clips),
     created_ts |-> now]

\* lines 172-177
completed_updates(clips) ==
    [status |-> "completed",
     progress |-> 100,
     message |-> "All done! Your clips are ready.",
     clips |-> Some(clips)]

\* lines 180-185
completed_body(doc) ==
    [status |-> Get(doc, "status", "completed"),
     progress |-> Get(doc, "progress", 100),
     message |-> Get(doc, "message", ""),
     clips |-> Get(doc, "clips", Some(<<>>))]

---------------------------------------------------------------------------
(* State *)

Idle == [pc |-> "idle"]

Response(op, job_id, req, code, elapsed, body) ==
    [op |-> op, job_id |-> job_id, req |-> req, code |-> code,
     elapsed |-> elapsed, body |-> body]

NoResponse == Response("none", "", None, 0, None, <<>>)

\* HTTPException(status_code=400, ...), line 105
BadRequest(req) ==
    Response("process", "", Some(req), 400, None,
             [detail |-> "Provide a file or at least one link"])
\* line 128
Created(req, jid) ==
    Response("process", jid, Some(req), 200, None, [job_id |-> jid])
\* HTTPException(status_code=404, ...), line 135
NotFound(job_id) ==
    Response("status", job_id, None, 404, None, [detail |-> "Job not found"])
\* an exception that leaves the handler: the framework answers 500
ServerError(job_id, elapsed) ==
    Response("status", job_id, None, 500, elapsed,
             [detail |-> "Internal Server Error"])
StatusOk(job_id, elapsed, body) ==
    Response("status", job_id, None, 200, Some(elapsed), body)

Polled(p, r) ==
    IF r.op = "status" /\ r.code = 200 /\ r.job_id \in DOMAIN p
    THEN [p EXCEPT ![r.job_id] =
            IF Len(@) = 0 THEN <<r.body>> ELSE <<@[Len(@)], r.body>>]
    ELSE p

Returns(r) ==
    /\ resp' = r
    /\ polled' = Polled(polled, r)

InitCommon ==
    /\ jobs = <<>>
    /\ now = 0
    /\ calls = [w \in Workers |-> Idle]
    /\ resp = NoResponse
    /\ polled = [j \in JobIds |-> <<>>]
    /\ received = [j \in JobIds |-> None]

\* line 28: the backing is fixed when the module is loaded
InitSeq == db \in BOOLEAN /\ InitCommon
Init == db = TRUE /\ InitCommon

\* time passes
Advance ==
    \E d \in ClockSteps :
        /\ now + d <= MaxTime
        /\ now' = now + d
        /\ UNCHANGED <<db, jobs, calls, resp, polled, received>>

---------------------------------------------------------------------------
(* The handlers, each as one step *)

\* POST /process, lines 83-128
Process(req) ==
    /\ IF missing_input(req)
       THEN /\ Returns(BadRequest(req))
            /\ UNCHANGED <<jobs, received>>
       ELSE \E jid \in JobIds \ DOMAIN jobs :
            /\ jobs' = update_job(save_job(jobs, jid, job_doc(req)), jid,
                                  created_stamp(now))
            /\ received' = [received EXCEPT ![jid] = Some(now)]
            /\ Returns(Created(req, jid))
    /\ UNCHANGED <<db, now, calls>>

\* GET /status/{job_id}, lines 131-185
Status(job_id) ==
    /\ IF ObjectIdRaises(db, job_id)
       THEN /\ Returns(ServerError(job_id, None))
            /\ UNCHANGED jobs
       ELSE IF get_job(jobs, job_id) = None
       THEN /\ Returns(NotFound(job_id))
            /\ UNCHANGED jobs
       ELSE LET doc == get_job(jobs, job_id)[1]
                elapsed == elapsed_of(doc, now)
            IN IF elapsed < Deadline
               THEN /\ jobs' = update_job(jobs, job_id,
                                          processing_updates(pct_of(elapsed)))
                    /\ Returns(StatusOk(job_id, elapsed,
                                        processing_body(pct_of(elapsed))))
               ELSE IF no_clips(doc)
               THEN IF example_clips_raises(doc)
                    THEN /\ Returns(ServerError(job_id, Some(elapsed)))
                         /\ UNCHANGED jobs
                    ELSE /\ jobs' = update_job(jobs, job_id,
                                      completed_updates(example_clips(doc)))
                         /\ Returns(StatusOk(job_id, elapsed,
                                      completed_body(get_job(jobs', job_id)[1])))
               ELSE /\ Returns(StatusOk(job_id, elapsed, completed_body(doc)))
                    /\ UNCHANGED jobs
    /\ UNCHANGED <<db, now, calls, received>>

DoProcess == \E req \in Requests : Process(req)
DoStatus == \E job_id \in PathIds : Status(job_id)

NextSeq ==
    \/ DoProcess
    \/ DoStatus
    \/ Advance

SpecSeq == InitSeq /\ [][NextSeq]_vars

---------------------------------------------------------------------------
(* The handlers, one store call or clock read per step *)

\* lines 92-123: validation, then save_job
ProcessSave(w, req) ==
    /\ calls[w] = Idle
    /\ IF missing_input(req)
       THEN /\ Returns(BadRequest(req))
            /\ UNCHANGED <<jobs, calls, received>>
       ELSE \E jid \in ConcurrentJobIds \ DOMAIN jobs :
            /\ jobs' = save_job(jobs, jid, job_doc(req))
            /\ received' = [received EXCEPT ![jid] = Some(now)]
            /\ calls' = [calls EXCEPT ![w] =
                            [pc |-> "stamp", job_id |-> jid, req |-> req]]
            /\ UNCHANGED <<resp, polled>>
    /\ UNCHANGED <<db, now>>

\* lines 126-128: update_job(job_id, {"created_ts": time.time()})
ProcessStamp(w) ==
    /\ calls[w].pc = "stamp"
    /\ jobs' = update_job(jobs, calls[w].job_id, created_stamp(now))
    /\ Returns(Created(calls[w].req, calls[w].job_id))
    /\ calls' = [calls EXCEPT ![w] = Idle]
    /\ UNCHANGED <<db, now, received>>

\* lines 133-135: get_job
StatusGet(w, job_id) ==
    /\ calls[w] = Idle
    /\ IF ObjectIdRaises(db, job_id)
       THEN /\ Returns(ServerError(job_id, None))
            /\ UNCHANGED calls
       ELSE IF get_job(jobs, job_id) = None
       THEN /\ Returns(NotFound(job_id))
            /\ UNCHANGED calls
       ELSE /\ calls' = [calls EXCEPT ![w] =
                            [pc |-> "clock", job_id |-> job_id,
                             doc |-> get_job(jobs, job_id)[1]]]
            /\ UNCHANGED <<resp, polled>>
    /\ UNCHANGED <<db, jobs, now, received>>

\* lines 137-141 and 153-171: the clock is read and the write is prepared
StatusClock(w) ==
    /\ calls[w].pc = "clock"
    /\ LET job_id == calls[w].job_id
           doc == calls[w].doc
           elapsed == elapsed_of(doc, now)
       IN IF elapsed < Deadline
          THEN /\ calls' = [calls EXCEPT ![w] =
                    [pc |-> "update", job_id |-> job_id, elapsed |-> elapsed,
                     updates |-> processing_updates(pct_of(elapsed))]]
               /\ UNCHANGED <<resp, polled>>
          ELSE IF no_clips(doc)
          THEN IF example_clips_raises(doc)
               THEN /\ Returns(ServerError(job_id, Some(elapsed)))
                    /\ calls' = [calls EXCEPT ![w] = Idle]
               ELSE /\ calls' = [calls EXCEPT ![w] =
                         [pc |-> "update", job_id |-> job_id, elapsed |-> elapsed,
                          updates |-> completed_updates(example_clips(doc))]]
                    /\ UNCHANGED <<resp, polled>>
          ELSE /\ Returns(StatusOk(job_id, elapsed, completed_body(doc)))
               /\ calls' = [calls EXCEPT ![w] = Idle]
    /\ UNCHANGED <<db, jobs, now, received>>

\* lines 142-151 and 172-177: update_job; before the deadline the handler
\* returns what it computed
StatusUpdate(w) ==
    /\ calls[w].pc = "update"
    /\ jobs' = update_job(jobs, calls[w].job_id, calls[w].updates)
    /\ IF calls[w].updates.status = "processing"
       THEN /\ Returns(StatusOk(calls[w].job_id, calls[w].elapsed,
                                processing_body(calls[w].updates.progress)))
            /\ calls' = [calls EXCEPT ![w] = Idle]
       ELSE /\ calls' = [calls EXCEPT ![w] =
                    [pc |-> "reget", job_id |-> calls[w].job_id,
                     elapsed |-> calls[w].elapsed]]
            /\ UNCHANGED <<resp, polled>>
    /\ UNCHANGED <<db, now, received>>

\* lines 178-185: the record is read again and returned
StatusReget(w) ==
    /\ calls[w].pc = "reget"
    /\ Returns(StatusOk(calls[w].job_id, calls[w].elapsed,
                        completed_body(get_job(jobs, calls[w].job_id)[1])))
    /\ calls' = [calls EXCEPT ![w] = Idle]
    /\ UNCHANGED <<db, jobs, now, received>>

DoProcessSave == \E w \in Workers, req \in ConcurrentRequests : ProcessSave(w, req)
DoProcessStamp == \E w \in Workers : ProcessStamp(w)
DoStatusGet == \E w \in Workers, job_id \in PathIds : StatusGet(w, job_id)
DoStatusClock == \E w \in Workers : StatusClock(w)
DoStatusUpdate == \E w \in Workers : StatusUpdate(w)
DoStatusReget == \E w \in Workers : StatusReget(w)

Next ==
    \/ DoProcessSave
    \/ DoProcessStamp
    \/ DoStatusGet
    \/ DoStatusClock
    \/ DoStatusUpdate
    \/ DoStatusReget
    \/ Advance

Spec == Init /\ [][Next]_vars

---------------------------------------------------------------------------
(* Claims *)

\* C1: every poll of an accepted job made when at least PROCESS_SECONDS have
\* elapsed since its created_ts returns 200 with status completed, progress
\* 100 and exactly two clips, whatever the job's clip_length.
C1_CompletedAtDeadline ==
    (resp.op = "status" /\ resp.elapsed # None /\ resp.elapsed[1] >= Deadline)
    => /\ resp.code = 200
       /\ resp.body.status = "completed"
       /\ resp.body.progress = 100
       /\ resp.body.clips # None
       /\ Len(resp.body.clips[1]) = 2

\* C2: polls of one job that interleave at their store steps leave the
\* record as some sequential order would: once the stored record is
\* completed with progress 100, it stays completed with progress 100.
C2_CompletedStaysCompleted ==
    [][\A j \in DOMAIN jobs :
          (jobs[j].status = "completed" /\ jobs[j].progress = 100)
          => (jobs'[j].status = "completed" /\ jobs'[j].progress = 100)]_vars

\* C3: with whole handlers and a non-decreasing clock, a new job is stored
\* as queued, the stored status moves only along
\* queued -> processing -> completed (or queued -> completed), completed is
\* never left, and no stored status is failed.
C3_StatusTransitions ==
    [][\A j \in DOMAIN jobs' :
          /\ jobs'[j].status # "failed"
          /\ IF j \in DOMAIN jobs
             THEN <<jobs[j].status, jobs'[j].status>> \in
                    { <<"queued", "queued">>, <<"queued", "processing">>,
                      <<"queued", "completed">>,
                      <<"processing", "processing">>,
                      <<"processing", "completed">>,
                      <<"completed", "completed">> }
             ELSE jobs'[j].status = "queued"]_vars

C3_Witness ==
    \E j \in DOMAIN jobs :
        /\ jobs[j].status = "completed"
        /\ Len(polled[j]) = 2
        /\ polled[j][1].status = "processing"
        /\ polled[j][2].status = "completed"

\* C4: of two successive polls of a job that both return a status other than
\* completed, the later returns a progress >= the earlier one's, and both
\* are >= 10; the progress formula is non-decreasing over the whole window.
C4_ProgressNonDecreasing ==
    /\ \A j \in JobIds :
          /\ \A i \in 1..Len(polled[j]) :
                polled[j][i].status # "completed" => polled[j][i].progress >= 10
          /\ (/\ Len(polled[j]) = 2
              /\ polled[j][1].status # "completed"
              /\ polled[j][2].status # "completed")
             => polled[j][2].progress >= polled[j][1].progress
    /\ 10 <= pct_of(0)
    /\ \A e \in 0..(Deadline - 2) : pct_of(e) <= pct_of(e + 1)

C4_Witness ==
    \E j \in JobIds :
        /\ Len(polled[j]) = 2
        /\ polled[j][1].status = "processing"
        /\ polled[j][2].status = "processing"
        /\ polled[j][2].progress > polled[j][1].progress

\* C5 as stated: every poll of an existing job made before PROCESS_SECONDS
\* have elapsed returns a progress p with 10 <= p < 95.
C5_ProgressBelow95 ==
    (resp.op = "status" /\ resp.elapsed # None /\ resp.elapsed[1] < Deadline)
    => /\ resp.code = 200
       /\ 10 <= resp.body.progress
       /\ resp.body.progress < 95

\* C5 as amended: every poll of an existing job made before PROCESS_SECONDS
\* have elapsed returns a progress p with 10 <= p < 100, and so does the
\* progress formula on every elapsed time of the window.
C5_ProgressBelow100 ==
    /\ (resp.op = "status" /\ resp.elapsed # None /\ resp.elapsed[1] < Deadline)
       => /\ resp.code = 200
          /\ 10 <= resp.body.progress
          /\ resp.body.progress < 100
    /\ \A e \in 0..(Deadline - 1) : 10 <= pct_of(e) /\ pct_of(e) < 100

C5_Witness ==
    /\ resp.op = "status"
    /\ resp.code = 200
    /\ resp.elapsed # None
    /\ resp.elapsed[1] < Deadline
    /\ resp.body.progress >= 95

\* C6: once a poll has stored clips for a job, a later poll (whole handlers)
\* leaves the stored record unchanged and returns the same status, progress,
\* message and clips as the poll before it.
C6_CompletedIdempotent ==
    [][\A j \in DOMAIN jobs :
          jobs[j].clips # None
          => /\ jobs'[j] = jobs[j]
             /\ (polled'[j] # polled[j] /\ Len(polled'[j]) = 2)
                => polled'[j][2] = polled'[j][1]]_vars

C6_Witness ==
    \E j \in DOMAIN jobs :
        /\ jobs[j].clips # None
        /\ Len(polled[j]) = 2
        /\ polled[j][1].status = "completed"
        /\ polled[j][2] = polled[j][1]
        /\ Len(polled[j][2].clips[1]) = 2

\* C7: in every state reached by interleaved create and poll steps, a job
\* whose stored status is completed has its two clips and progress 100, and
\* a job with stored clips has status completed.
C7_CompletedIffClips ==
    \A j \in DOMAIN jobs :
        /\ jobs[j].status = "completed"
           => /\ jobs[j].clips # None
              /\ Len(jobs[j].clips[1]) = 2
              /\ jobs[j].progress = 100
        /\ jobs[j].clips # None => jobs[j].status = "completed"

\* C8: right after an accepted POST /process the record stored under the
\* returned job_id is queued with progress 10, no clips and a created_ts; a
\* poll of a stored job never returns 404, and one made before
\* PROCESS_SECONDS have elapsed returns 200, queued or processing, with
\* progress >= 10.
C8_CreatedJobResolvable ==
    /\ (resp.op = "process" /\ resp.code = 200)
       => /\ resp.body = [job_id |-> resp.job_id]
          /\ resp.job_id \in DOMAIN jobs
          /\ jobs[resp.job_id].status = "queued"
          /\ jobs[resp.job_id].progress = 10
          /\ jobs[resp.job_id].clips = None
          /\ "created_ts" \in DOMAIN jobs[resp.job_id]
    /\ (resp.op = "status" /\ resp.job_id \in DOMAIN jobs)
       => /\ resp.code # 404
          /\ (resp.elapsed # None /\ resp.elapsed[1] < Deadline)
             => /\ resp.code = 200
                /\ resp.body.status \in {"queued", "processing"}
                /\ resp.body.progress >= 10

C8_Witness ==
    /\ resp.op = "status"
    /\ resp.code = 200
    /\ resp.elapsed = Some(0)
    /\ Len(polled[resp.job_id]) = 1
    /\ jobs[resp.job_id].created_ts = now

\* C9: every 200 response of GET /status has the four fields status,
\* progress, message and clips.
C9_FourFields ==
    (resp.op = "status" /\ resp.code = 200)
    => DOMAIN resp.body = {"status", "progress", "message", "clips"}

\* the request gives no link: no source_url (absent or empty) and no string
\* item in sources (absent, empty, not JSON, not a list, or a list without
\* strings)
C10_NoFileNoLinks(req) ==
    /\ req.file = None
    /\ req.source_url \in {None, Some("")}
    /\ \/ req.sources = None
       \/ req.sources[1].json \in {"empty", "malformed", "scalar"}
       \/ /\ req.sources[1].json = "list"
          /\ \A i \in 1..Len(req.sources[1].items) :
                req.sources[1].items[i][1] # "str"

\* C10: POST /process answers 400 exactly when there is no file and no
\* link, and then the store is unchanged; every other request answers 200
\* and stores exactly one new job, under the returned id.
C10_RejectsExactlyMissingInput ==
    [][(resp'.op = "process" /\ now' = now)
       => /\ resp'.code = (IF C10_NoFileNoLinks(resp'.req[1]) THEN 400 ELSE 200)
          /\ resp'.code = 400 => jobs' = jobs
          /\ resp'.code = 200
             => /\ DOMAIN jobs' = DOMAIN jobs \cup {resp'.job_id}
                /\ resp'.job_id \notin DOMAIN jobs
                /\ \A j \in DOMAIN jobs : jobs'[j] = jobs[j]]_vars

C10_Witness ==
    /\ resp.op = "process"
    /\ resp.code = 400
    /\ resp.req[1].source_url = Some("")
    /\ resp.req[1].sources # None
    /\ resp.req[1].sources[1].json = "list"
    /\ Len(resp.req[1].sources[1].items) > 0
    /\ DOMAIN jobs # {}

\* C11: a poll of a job id that no POST /process returned answers 404 on
\* either backing.
C11_UnknownIdNotFound ==
    (resp.op = "status" /\ resp.job_id \notin DOMAIN jobs) => resp.code = 404

RECURSIVE C12_Strings(_)
C12_Strings(items) ==
    IF items = <<>> THEN <<>>
    ELSE (IF Head(items)[1] = "str" THEN <<Head(items)[2]>> ELSE <<>>)
         \o C12_Strings(Tail(items))

C12_Expected(req) ==
    LET parsed == IF req.sources # None /\ req.sources[1].json = "list"
                  THEN C12_Strings(req.sources[1].items)
                  ELSE <<>>
        url == req.source_url
    IN IF url # None /\ url[1] # "" /\ \A i \in 1..Len(parsed) : parsed[i] # url[1]
       THEN parsed \o <<url[1]>>
       ELSE parsed

\* C12: for an accepted request without a file the stored link list is the
\* string items of the parsed sources in their order, followed by source_url
\* exactly when it is non-empty and not among them; sources ["a","b"] with a
\* source_url already in the list stores ["a","b"].
C12_StoredLinkList ==
    (resp.op = "process" /\ resp.code = 200 /\ resp.req[1].file = None)
    => /\ jobs[resp.job_id].sources = Some(C12_Expected(resp.req[1]))
       /\ (/\ resp.req[1].source_url = Some("b")
           /\ resp.req[1].sources =
                Some(JsonText("list", << <<"str", "a">>, <<"str", "b">> >>)))
          => jobs[resp.job_id].sources = Some(<<"a", "b">>)

C12_Witness ==
    /\ resp.op = "process"
    /\ resp.code = 200
    /\ resp.req[1].file = None
    /\ resp.req[1].source_url = Some("b")
    /\ resp.req[1].sources =
         Some(JsonText("list", << <<"str", "a">>, <<"str", "b">> >>))
    /\ jobs[resp.job_id].sources = Some(<<"a", "b">>)

\* C13: on completion the first clip's duration is the numeric value of the
\* job's clip_length (45 for "45"), or 30 when clip_length is "auto"; the
\* second clip's duration is 20; both clips carry the job's aspect_ratio.
C13_ClipDurations ==
    /\ \A j \in DOMAIN jobs :
          jobs[j].clips # None
          => LET clips == jobs[j].clips[1]
             IN /\ Len(clips) = 2
                /\ jobs[j].clip_length = AUTO => clips[1].duration = Some(30)
                /\ jobs[j].clip_length = <<"4","5">>
                   => clips[1].duration = Some(45)
                /\ jobs[j].clip_length # AUTO
                   => clips[1].duration = Some(DecimalValue(jobs[j].clip_length))
                /\ clips[2].duration = Some(20)
                /\ clips[1].aspect_ratio = jobs[j].aspect_ratio
                /\ clips[2].aspect_ratio = jobs[j].aspect_ratio
    /\ (resp.op = "status" /\ resp.code = 200 /\ resp.body.status = "completed")
       => /\ resp.body.clips # None
          /\ resp.body.clips = jobs[resp.job_id].clips

C13_Witness ==
    \E j \in DOMAIN jobs :
        /\ jobs[j].clip_length = <<"4","5">>
        /\ jobs[j].aspect_ratio = "9:16"
        /\ jobs[j].clips # None
        /\ jobs[j].clips[1][1].duration = Some(45)
        /\ jobs[j].clips[1][2].aspect_ratio = "9:16"

C14_SameLetter(c, l) ==
    \/ c = l
    \/ <<c, l>> \in { <<"T","t">>, <<"R","r">>, <<"U","u">>, <<"E","e">>,
                      <<"Y","y">>, <<"S","s">>, <<"O","o">>, <<"N","n">> }
C14_Spells(s, word) ==
    Len(s) = Len(word) /\ \A i \in 1..Len(s) : C14_SameLetter(s[i], word[i])
C14_Truthy(s) ==
    \E word \in { <<"t","r","u","e">>, <<"1">>, <<"y","e","s">>, <<"o","n">> } :
        C14_Spells(s, word)

\* C14: the stored auto_highlights is true exactly when the form value is,
\* in any letter case, one of true, 1, yes, on, and is true when the field
\* is left out; "On" gives true and "0" gives false.
C14_AutoHighlights ==
    (resp.op = "process" /\ resp.code = 200)
    => LET given == resp.req[1].auto_highlights
           stored == jobs[resp.job_id].auto_highlights
       IN /\ stored = (IF given = None THEN TRUE ELSE C14_Truthy(given[1]))
          /\ given = Some(<<"O","n">>) => stored = TRUE
          /\ given = Some(<<"0">>) => stored = FALSE

C14_Witness ==
    /\ resp.op = "process"
    /\ resp.code = 200
    /\ resp.req[1].auto_highlights = Some(<<"O","n">>)
    /\ jobs[resp.job_id].auto_highlights = TRUE

\* C15: after a poll made before PROCESS_SECONDS have elapsed the stored
\* status, progress and message equal those of the poll's response.
C15_StoredEqualsReturned ==
    (resp.op = "status" /\ resp.code = 200 /\ resp.elapsed[1] < Deadline)
    => /\ jobs[resp.job_id].status = resp.body.status
       /\ jobs[resp.job_id].progress = resp.body.progress
       /\ jobs[resp.job_id].message = resp.body.message

\* C16: a poll made when the elapsed time e is below PROCESS_SECONDS returns
\* the progress floor(min(95, e / PROCESS_SECONDS * 90) + 10), a value in
\* [10, 100) fixed by e alone (10 at e = 0).
C16_ProgressFormula ==
    (resp.op = "status" /\ resp.code = 200 /\ resp.elapsed[1] < Deadline)
    => LET e == resp.elapsed[1]
           q == (e * 90) \div (PROCESS_SECONDS * TicksPerSec)
       IN /\ resp.body.progress = (IF q < 95 THEN q ELSE 95) + 10
          /\ resp.body.progress >= 10
          /\ resp.body.progress < 100
          /\ e = 0 => resp.body.progress = 10

C16_Witness ==
    /\ resp.op = "status"
    /\ resp.code = 200
    /\ resp.elapsed[1] > 0
    /\ resp.elapsed[1] < Deadline
    /\ Len(polled[resp.job_id]) = 2
    /\ polled[resp.job_id][1].progress < polled[resp.job_id][2].progress
    /\ polled[resp.job_id][2].progress = resp.body.progress

C17_FrozenKeys ==
    {"source_type", "original_filename", "sources", "clip_length",
     "aspect_ratio", "auto_highlights", "error", "created_ts"}

\* C17: no step removes a stored job; once its creation has stamped
\* created_ts, every step leaves its source_type, original_filename,
\* sources, clip_length, aspect_ratio, auto_highlights, error and created_ts
\* as they are, and clips, once stored, do not change.
C17_PollsChangeOnlyProgressFields ==
    [][\A j \in DOMAIN jobs :
          /\ j \in DOMAIN jobs'
          /\ "created_ts" \in DOMAIN jobs[j]
             => /\ \A k \in C17_FrozenKeys :
                      k \in DOMAIN jobs'[j] /\ jobs'[j][k] = jobs[j][k]
                /\ jobs[j].clips # None => jobs'[j].clips = jobs[j].clips]_vars

C17_Witness ==
    \E j \in DOMAIN jobs :
        /\ jobs[j].status = "completed"
        /\ jobs[j].clips # None
        /\ jobs[j].source_type = "links"
        /\ jobs[j].sources = Some(<<"b">>)
        /\ Len(polled[j]) = 2

\* C18: the stored source_type is file exactly when a file was uploaded and
\* links otherwise; sources is a non-empty list exactly when source_type is
\* links and null for a file, whatever links came with it; original_filename
\* is set only for a file.
C18_SourceFields ==
    /\ (resp.op = "process" /\ resp.code = 200)
       => /\ jobs[resp.job_id].source_type =
                (IF resp.req[1].file # None THEN "file" ELSE "links")
          /\ resp.req[1].file # None => jobs[resp.job_id].sources = None
    /\ \A j \in DOMAIN jobs :
          /\ jobs[j].source_type \in {"file", "links"}
          /\ jobs[j].source_type = "links"
             <=> (jobs[j].sources # None /\ Len(jobs[j].sources[1]) > 0)
          /\ jobs[j].source_type = "file" => jobs[j].sources = None
          /\ jobs[j].original_filename # None => jobs[j].source_type = "file"

C18_Witness ==
    /\ resp.op = "process"
    /\ resp.code = 200
    /\ resp.req[1].file # None
    /\ resp.req[1].source_url = Some("b")
    /\ resp.req[1].sources # None
    /\ jobs[resp.job_id].source_type = "file"
    /\ jobs[resp.job_id].sources = None

\* C19: a step changes a stored record only when it is a poll of that very
\* job, removes none, and adds a record only as the one new job of an
\* accepted POST /process, under an id that was not in the store.
C19_JobsIsolated ==
    [][/\ \A j \in DOMAIN jobs :
             /\ j \in DOMAIN jobs'
             /\ jobs'[j] # jobs[j] => (resp'.op = "status" /\ resp'.job_id = j)
       /\ \A j \in DOMAIN jobs' \ DOMAIN jobs :
             /\ resp'.op = "process"
             /\ resp'.code = 200
             /\ resp'.job_id = j
             /\ DOMAIN jobs' = DOMAIN jobs \cup {j}]_vars

C19_Witness ==
    \E a \in DOMAIN jobs, b \in DOMAIN jobs :
        /\ a # b
        /\ resp.op = "status"
        /\ resp.job_id = a
        /\ resp.code = 200
        /\ resp.body.status = "completed"
        /\ jobs[a].clips # None
        /\ jobs[b].status = "queued"
        /\ jobs[b].clips = None

\* C20: while less than PROCESS_SECONDS have passed since a job's POST
\* /process entered the handler, its stored record has no clips and is not
\* completed, and no poll of it has answered completed or with clips,
\* however the steps of creation and polls interleave.
C20_NoEarlyCompletion ==
    /\ \A j \in DOMAIN jobs :
          now - received[j][1] < Deadline
          => jobs[j].clips = None /\ jobs[j].status # "completed"
    /\ (/\ resp.op = "status"
        /\ resp.code = 200
        /\ resp.job_id \in DOMAIN jobs
        /\ now - received[resp.job_id][1] < Deadline)
       => /\ resp.body.status # "completed"
          /\ "clips" \in DOMAIN resp.body
             => resp.body.clips \in {None, Some(<<>>)}

C20_Witness ==
    \E w \in Workers :
        /\ calls[w].pc = "stamp"
        /\ jobs[calls[w].job_id].status = "processing"
        /\ resp.op = "status"
        /\ resp.job_id = calls[w].job_id
        /\ resp.code = 200
        /\ now - received[calls[w].job_id][1] < Deadline

=============================================================================
